---- MODULE Spec2Model ----
(***************************************************************************)
(* Model of smappy (src/smappy/smappy.py): the Smappee cloud session with   *)
(* its OAuth2 token state and the `authenticated` guard, the time codec     *)
(* _to_milliseconds, urljoin, and the LocalSmappee cosfi helper.            *)
(***************************************************************************)
EXTENDS Integers, Sequences, FiniteSets, TLC

VARIABLES
    \* ---- _to_milliseconds under test
    time,       \* the argument
    ms,         \* outcome of _to_milliseconds(time)
    ms2,        \* outcome of re-applying _to_milliseconds to its own output
    \* ---- urljoin / LocalSmappee.base_url under test
    parts,      \* the *parts argument of urljoin
    url,        \* urljoin(*parts)
    ip,         \* LocalSmappee.ip
    base_url,   \* LocalSmappee.base_url
    \* ---- LocalSmappee.active_cosfi under test
    inst,       \* what load_instantaneous() returns
    cosfi,      \* outcome of active_cosfi()
    \* ---- a Smappee / SimpleSmappee session
    access_token,           \* self.access_token
    refresh_token,          \* self.refresh_token
    token_expiration_time,  \* self.token_expiration_time
    now,        \* dt.datetime.utcnow(), in seconds
    issued,     \* number of token pairs the token endpoint has issued
    last_fetch, \* history: receipt time and expires_in of the last successful token fetch
    threads,    \* the threads that call into the session
    pc,         \* per thread: "idle", "token_wait" or "service_wait" (blocked in requests)
    frame,      \* per thread: the operation being run and its arguments
    log,        \* per thread: history of the current operation (guards, requests, responses)
    result      \* per thread: how the last operation ended

timeVars  == <<time, ms, ms2>>
urlVars   == <<parts, url, ip, base_url>>
localVars == <<inst, cosfi>>
pureVars  == <<timeVars, urlVars, localVars>>
tokenVars == <<access_token, refresh_token, token_expiration_time>>
sessVars  == <<tokenVars, now, issued, last_fetch, threads, pc, frame, log, result>>

Unset == [err |-> "unset"]

(***************************************************************************)
(* Bounds of the model.                                                     *)
(***************************************************************************)
MaxMicros    == 2200   \* wall-clock microseconds around the epoch
OffsetMicros == 1500   \* magnitude of the modelled utc offsets, microseconds
MaxNumber    == 3      \* numeric epoch arguments are -MaxNumber..MaxNumber
MaxParts     == 2      \* number of parts handed to urljoin
MaxPartLen   == 3      \* characters per part
MaxReadings  == 3      \* instantaneous readings in one response
MaxClock     == 2      \* the clock runs from 0 to MaxClock seconds
MaxExpiresIn == 1      \* expires_in of a token response is 0..MaxExpiresIn
MaxIssued    == 2      \* token pairs the token endpoint issues

(***************************************************************************)
(* Integer helpers.                                                         *)
(***************************************************************************)
Abs(n) == IF n < 0 THEN -n ELSE n
\* floor(n / d), d > 0
FloorDiv(n, d) == IF n >= 0 THEN n \div d ELSE -(((-n) + d - 1) \div d)

(***************************************************************************)
(* Smappee._to_milliseconds                                                 *)
(*                                                                          *)
(* A Python value is a record: type "number" (numbers.Number), "datetime"   *)
(* (dt.datetime, pd.Timestamp) or "str".  A datetime carries its wall-clock *)
(* reading v in microseconds since 1970-01-01T00:00:00 on its own clock,    *)
(* aware = (tzinfo is not None) and utcoffset in microseconds.  A float is  *)
(* represented exactly: timestamp() is kept in microseconds and the         *)
(* product with 1e3 is the exact rational, so the rounding of IEEE doubles  *)
(* is not part of this model.                                               *)
(***************************************************************************)
Number(n)        == [type |-> "number",   v |-> n, aware |-> FALSE, utcoffset |-> 0]
Naive(w)         == [type |-> "datetime", v |-> w, aware |-> FALSE, utcoffset |-> 0]
Aware(w, off)    == [type |-> "datetime", v |-> w, aware |-> TRUE,  utcoffset |-> off]
Str              == [type |-> "str",      v |-> 0, aware |-> FALSE, utcoffset |-> 0]

Returned(x) == [err |-> "none", val |-> x]
Raised(e)   == [err |-> e, val |-> Str]

MicrosPerMilli == 1000

\* (mutant) a naive value read as local time east of UTC
replace_tzinfo_local(t) == [t EXCEPT !.aware = TRUE, !.utcoffset = OffsetMicros]
\* time.replace(tzinfo=pytz.UTC): the wall clock is kept, the label changes
replace_tzinfo_utc(t) == [t EXCEPT !.aware = TRUE, !.utcoffset = 0]

\* aware datetime.timestamp(): (self - _EPOCH).total_seconds(), in microseconds
timestamp(t) == t.v - t.utcoffset

\* int(x): truncation toward zero of the exact quotient n / d, d > 0
int(n, d) == IF n >= 0 THEN n \div d ELSE -((-n) \div d)

_to_milliseconds(t) ==
    IF t.type = "datetime"
    THEN LET a == IF ~t.aware THEN replace_tzinfo_utc(t) ELSE t
         IN  Returned(Number(int(timestamp(a), MicrosPerMilli)))
    ELSE IF t.type = "number"
    THEN Returned(t)
    ELSE Raised("NotImplementedError")

UtcOffsets == {-OffsetMicros, 0, OffsetMicros}
TimeInputs ==
    {Number(n) : n \in -MaxNumber..MaxNumber}
    \cup {Naive(w) : w \in -MaxMicros..MaxMicros}
    \cup {Aware(w, off) : w \in -MaxMicros..MaxMicros, off \in UtcOffsets}
    \cup {Str}

(***************************************************************************)
(* urljoin and LocalSmappee.base_url.  A string is a sequence of           *)
(* one-character strings.                                                   *)
(***************************************************************************)
UrlChars == {"/", "a"}

RECURSIVE lstrip(_)
lstrip(s) == IF s # <<>> /\ Head(s) = "/" THEN lstrip(Tail(s)) ELSE s
RECURSIVE rstrip(_)
rstrip(s) == IF s # <<>> /\ s[Len(s)] = "/" THEN rstrip(SubSeq(s, 1, Len(s) - 1)) ELSE s
\* p.strip('/')
strip(s) == rstrip(lstrip(s))

\* s.endswith(suffix)
endswith(s, suffix) ==
    Len(s) >= Len(suffix) /\ SubSeq(s, Len(s) - Len(suffix) + 1, Len(s)) = suffix

\* '/'.join(part_list)
RECURSIVE join(_)
join(part_list) ==
    IF part_list = <<>> THEN <<>>
    ELSE IF Len(part_list) = 1 THEN part_list[1]
    ELSE part_list[1] \o <<"/">> \o join(Tail(part_list))

\* (mutant) only the protocol marker is treated, nothing is stripped
urljoin_part_nostrip(p) ==
    IF endswith(p, <<"/", "/">>) THEN SubSeq(p, 1, Len(p) - 1) ELSE p
\* one turn of the loop of urljoin
urljoin_part(p) ==
    IF endswith(p, <<"/", "/">>) THEN SubSeq(p, 1, Len(p) - 1) ELSE strip(p)

urljoin(ps) == join([i \in 1..Len(ps) |-> urljoin_part(ps[i])])

StringsUpTo(n) == UNION {[1..k -> UrlChars] : k \in 0..n}
PartLists      == UNION {[1..k -> StringsUpTo(MaxPartLen)] : k \in 0..MaxParts}

HttpMarker == <<"h", "t", "t", "p", ":", "/", "/">>
Gateway    == <<"g", "a", "t", "e", "w", "a", "y">>
ApiPublic  == <<"a", "p", "i", "p", "u", "b", "l", "i", "c">>
Ips        == {<<"1", "0", ".", "0", ".", "0", ".", "7">>, <<"h", "o", "s", "t">>}

\* LocalSmappee.base_url
LocalSmappee_base_url(self_ip) == urljoin(<<HttpMarker, self_ip, Gateway, ApiPublic>>)

(***************************************************************************)
(* LocalSmappee.active_cosfi.  A reading is [key, value]; value is the      *)
(* decimal string the gateway sends.  A float result is the exact rational  *)
(* num / den.                                                               *)
(***************************************************************************)
Cosfi       == <<"C", "o", "s", "f", "i">>
ActivePower == <<"A", "c", "t", "i", "v", "e", "P", "o", "w", "e", "r">>
Keys ==
    { <<"p", "h", "a", "s", "e", "0">> \o Cosfi,
      <<"p", "h", "a", "s", "e", "1">> \o Cosfi,
      <<"p", "h", "a", "s", "e", "0">> \o ActivePower,
      Cosfi \o <<"M", "a", "x">> }
Values == { <<"0">>, <<"9", "5">>, <<"1", "0", "0">> }

Digit(c) == CASE c = "0" -> 0 [] c = "1" -> 1 [] c = "5" -> 5 [] c = "9" -> 9
\* float(i['value']) of a string of decimal digits
RECURSIVE float(_)
float(s) == IF s = <<>> THEN 0 ELSE 10 * float(SubSeq(s, 1, Len(s) - 1)) + Digit(s[Len(s)])

RECURSIVE sum(_)
sum(values) == IF values = <<>> THEN 0 ELSE Head(values) + sum(Tail(values))

\* [float(i['value']) for i in inst if i['key'].endswith(suffix)]
RECURSIVE values_with_suffix(_, _)
values_with_suffix(readings, suffix) ==
    IF readings = <<>> THEN <<>>
    ELSE (IF endswith(Head(readings).key, suffix)
          THEN <<float(Head(readings).value)>> ELSE <<>>)
         \o values_with_suffix(Tail(readings), suffix)

\* (mutant) a guarded mean that answers 0 for an empty list
truediv_guarded(a, b) ==
    IF b = 0 THEN [err |-> "none", num |-> 0, den |-> 1]
    ELSE [err |-> "none", num |-> a, den |-> b]
\* a / b of two numbers
truediv(a, b) ==
    IF b = 0 THEN [err |-> "ZeroDivisionError", num |-> 0, den |-> 1]
    ELSE [err |-> "none", num |-> a, den |-> b]

active_cosfi(readings) ==
    LET values == values_with_suffix(readings, Cosfi)
    IN  truediv(sum(values), Len(values))

Readings    == [key : Keys, value : Values]
ReadingLists == UNION {[1..k -> Readings] : k \in 0..MaxReadings}

\* the variables of a part of the model that a specification does not exercise
IdleUrl   == parts = <<>> /\ url = Unset /\ ip = <<>> /\ base_url = Unset
IdleLocal == inst = <<>> /\ cosfi = Unset
IdleTime  == time = Str /\ ms = Unset /\ ms2 = Unset

(***************************************************************************)
(* The Smappee session.  A Python value of the token state is a record      *)
(* [kind, n]: None, a token string or a datetime (n seconds).               *)
(***************************************************************************)
None            == [kind |-> "None", n |-> 0]
AccessToken(k)  == [kind |-> "access_token", n |-> k]
RefreshToken(k) == [kind |-> "refresh_token", n |-> k]
datetime(t)     == [kind |-> "datetime", n |-> t]
integer(k)      == [kind |-> "int", n |-> k]
\* the access token an outside process hands to SimpleSmappee
InjectedToken   == [kind |-> "access_token", n |-> 0]

TokenState(a, r, e) ==
    [access_token |-> a, refresh_token |-> r, token_expiration_time |-> e]
Self == TokenState(access_token, refresh_token, token_expiration_time)

\* Smappee.__init__
Smappee_init == TokenState(None, None, None)
\* SimpleSmappee.__init__
SimpleSmappee_init == [Smappee_init EXCEPT !.access_token = InjectedToken]

\* The answers of the token endpoint when k pairs were issued before: a
\* non-success status, or a 2xx whose JSON body holds any of the three fields.
TokenResponses(k) ==
    {[ok |-> FALSE, access_token |-> None, refresh_token |-> None, expires_in |-> None]}
    \cup {[ok |-> TRUE, access_token |-> a, refresh_token |-> r, expires_in |-> e] :
            a \in {None, AccessToken(k + 1)},
            r \in {None, RefreshToken(k + 1)},
            e \in {None} \cup {integer(n) : n \in 0..MaxExpiresIn}}

\* (mutant) expires_in handed to timedelta as days, not seconds
_set_token_expiration_time_days(expires_in, clock) ==
    datetime(clock + 86400 * expires_in.n)
\* Smappee._set_token_expiration_time
_set_token_expiration_time(expires_in, clock) == datetime(clock + expires_in.n)

\* (mutant) the token state is dropped when the token endpoint refuses
store_token_response_logout(S, r, clock) ==
    IF ~r.ok
    THEN [state |-> Smappee_init, err |-> "HTTPError"]
    ELSE IF r.access_token = None
    THEN [state |-> S, err |-> "KeyError"]
    ELSE IF r.refresh_token = None
    THEN [state |-> [S EXCEPT !.access_token = r.access_token], err |-> "KeyError"]
    ELSE IF r.expires_in = None
    THEN [state |-> [S EXCEPT !.access_token = r.access_token,
                              !.refresh_token = r.refresh_token],
          err |-> "KeyError"]
    ELSE [state |-> TokenState(r.access_token, r.refresh_token,
                               _set_token_expiration_time(r.expires_in, clock)),
          err |-> "none"]
\* authenticate and re_authenticate from the response on: raise_for_status,
\* r.json(), then the three assignments in turn; a field the body lacks
\* raises KeyError at its own line
store_token_response(S, r, clock) ==
    IF ~r.ok
    THEN [state |-> S, err |-> "HTTPError"]
    ELSE IF r.access_token = None
    THEN [state |-> S, err |-> "KeyError"]
    ELSE IF r.refresh_token = None
    THEN [state |-> [S EXCEPT !.access_token = r.access_token], err |-> "KeyError"]
    ELSE IF r.expires_in = None
    THEN [state |-> [S EXCEPT !.access_token = r.access_token,
                              !.refresh_token = r.refresh_token],
          err |-> "KeyError"]
    ELSE [state |-> TokenState(r.access_token, r.refresh_token,
                               _set_token_expiration_time(r.expires_in, clock)),
          err |-> "none"]

(***************************************************************************)
(* History entries of an operation.                                         *)
(***************************************************************************)
Entry(kind, S, clock, info, params) ==
    [kind |-> kind, state |-> S, clock |-> clock, info |-> info, params |-> params,
     fetch |-> last_fetch]
NoFetch == [kind |-> "None", at |-> 0, expires_in |-> 0]

(***************************************************************************)
(* Operations and their arguments.                                          *)
(***************************************************************************)
TimeOps  == {"get_consumption", "get_sensor_consumption", "get_events"}
PlainOps == {"get_service_locations", "get_service_location_info",
             "actuator_on", "actuator_off"}
SessionTimes == {Naive(OffsetMicros), Str}
Frame(op, start, end, df, localize) ==
    [op |-> op, start |-> start, end |-> end, df |-> df, localize |-> localize]
NoFrame == Frame("none", Number(0), Number(0), "no", FALSE)

Outcome(p, res, sent) == [pc |-> p, result |-> res, sent |-> sent]

\* (mutant) the request leaves before start and end are converted
func_send_first(fr, S, clock) ==
    Outcome("service_wait", "pending",
            <<Entry("service", S, clock, fr.op, <<fr.start, fr.end>>)>>)
\* the decorated function: _get_consumption and get_events convert start and
\* end, then every operation sends one request with the bearer header built
\* from self.access_token
func(fr, S, clock) ==
    IF fr.op \in TimeOps
    THEN LET start == _to_milliseconds(fr.start)
             end   == _to_milliseconds(fr.end)
         IN  IF start.err # "none" THEN Outcome("idle", start.err, <<>>)
             ELSE IF end.err # "none" THEN Outcome("idle", end.err, <<>>)
             ELSE Outcome("service_wait", "pending",
                          <<Entry("service", S, clock, fr.op, <<start.val, end.val>>)>>)
    ELSE Outcome("service_wait", "pending", <<Entry("service", S, clock, fr.op, <<>>)>>)

\* (mutant) the expiry test is strict
expired_strict(S, clock) == S.token_expiration_time.n < clock
\* self.token_expiration_time <= dt.datetime.utcnow()
expired(S, clock) == S.token_expiration_time.n <= clock

\* (mutant) the guard does not look at refresh_token
needs_refresh_any(S, clock) ==
    S.token_expiration_time = None \/ expired(S, clock)
\* (mutant) the guard never refreshes
needs_refresh_never(S, clock) == FALSE
\* (mutant) the guard holds back while another thread's token request is out
needs_refresh_serialized(S, clock) ==
    /\ S.refresh_token # None
    /\ expired(S, clock)
    /\ \A u \in threads : pc[u] # "token_wait"
\* the condition of the guard
needs_refresh(S, clock) == S.refresh_token # None /\ expired(S, clock)

\* the wrapper of `authenticated` up to its first blocking request; comparing
\* a missing token_expiration_time with a datetime raises TypeError
wrapper(fr, S, clock) ==
    LET guard == Entry("guard", S, clock, fr.op, <<>>)
    IN  IF S.refresh_token # None /\ S.token_expiration_time = None
        THEN Outcome("idle", "TypeError", <<guard>>)
        ELSE IF needs_refresh(S, clock)
        THEN Outcome("token_wait", "pending",
                     <<guard, Entry("token", S, clock, "refresh_token", <<>>)>>)
        ELSE LET o == func(fr, S, clock)
             IN  Outcome(o.pc, o.result, <<guard>> \o o.sent)

(***************************************************************************)
(* Actions of a session.                                                    *)
(***************************************************************************)
StartState(S) ==
    /\ access_token = S.access_token
    /\ refresh_token = S.refresh_token
    /\ token_expiration_time = S.token_expiration_time

SetState(S) ==
    /\ access_token' = S.access_token
    /\ refresh_token' = S.refresh_token
    /\ token_expiration_time' = S.token_expiration_time

\* thread t moves on as outcome o says, its history reset or extended
Move(t, fr, o, fresh) ==
    /\ pc' = [pc EXCEPT ![t] = o.pc]
    /\ result' = [result EXCEPT ![t] = o.result]
    /\ frame' = [frame EXCEPT ![t] = fr]
    /\ log' = [log EXCEPT ![t] = (IF fresh THEN <<>> ELSE @) \o o.sent]
    /\ UNCHANGED pureVars

Invoke(t, fr) ==
    /\ pc[t] = "idle"
    /\ Move(t, fr, wrapper(fr, Self, now), TRUE)
    /\ UNCHANGED <<tokenVars, now, issued, last_fetch, threads>>

get_service_locations(t) ==
    Invoke(t, Frame("get_service_locations", Number(0), Number(0), "no", FALSE))
get_service_location_info(t) ==
    Invoke(t, Frame("get_service_location_info", Number(0), Number(0), "no", FALSE))
get_consumption(t) ==
    \E start \in SessionTimes, end \in SessionTimes :
        Invoke(t, Frame("get_consumption", start, end, "no", FALSE))
get_sensor_consumption(t) ==
    \E start \in SessionTimes, end \in SessionTimes :
        Invoke(t, Frame("get_sensor_consumption", start, end, "no", FALSE))
get_events(t) ==
    \E start \in SessionTimes, end \in SessionTimes :
        Invoke(t, Frame("get_events", start, end, "no", FALSE))
actuator_on(t) ==
    Invoke(t, Frame("actuator_on", Number(0), Number(0), "no", FALSE))
actuator_off(t) ==
    Invoke(t, Frame("actuator_off", Number(0), Number(0), "no", FALSE))
\* get_consumption_dataframe: sensor_id chooses the inner operation
get_consumption_dataframe(t) ==
    \E start \in SessionTimes, end \in SessionTimes,
       op \in {"get_consumption", "get_sensor_consumption"}, localize \in BOOLEAN :
        Invoke(t, Frame(op, start, end, "data", localize))

\* authenticate(username, password): the password-grant request leaves
authenticate(t) ==
    /\ pc[t] = "idle"
    /\ Move(t, Frame("authenticate", Number(0), Number(0), "no", FALSE),
            Outcome("token_wait", "pending",
                    <<Entry("call", Self, now, "authenticate", <<>>),
                      Entry("token", Self, now, "password", <<>>)>>),
            TRUE)
    /\ UNCHANGED <<tokenVars, now, issued, last_fetch, threads>>

\* re_authenticate() called directly: the refresh-grant request leaves
re_authenticate(t) ==
    /\ pc[t] = "idle"
    /\ Move(t, Frame("re_authenticate", Number(0), Number(0), "no", FALSE),
            Outcome("token_wait", "pending",
                    <<Entry("call", Self, now, "re_authenticate", <<>>),
                      Entry("token", Self, now, "refresh_token", <<>>)>>),
            TRUE)
    /\ UNCHANGED <<tokenVars, now, issued, last_fetch, threads>>

\* the token endpoint answers thread t: the rest of authenticate or
\* re_authenticate runs, and under the guard the decorated function follows
TokenResponse(t) ==
    /\ pc[t] = "token_wait"
    /\ \E r \in TokenResponses(issued) :
        LET e    == store_token_response(Self, r, now)
            resp == [kind |-> "response",
                     state |-> TokenState(r.access_token, r.refresh_token,
                                 IF r.expires_in = None THEN None
                                 ELSE datetime(now + r.expires_in.n)),
                     clock |-> now,
                     info |-> IF ~r.ok THEN "refused"
                              ELSE IF e.err = "none" THEN "stored" ELSE "malformed",
                     params |-> <<>>, fetch |-> last_fetch]
            o    == IF e.err # "none" THEN Outcome("idle", e.err, <<>>)
                    ELSE IF frame[t].op \in {"authenticate", "re_authenticate"}
                    THEN Outcome("idle", "ok", <<>>)
                    ELSE func(frame[t], e.state, now)
        IN  /\ r.ok => issued < MaxIssued
            /\ SetState(e.state)
            /\ issued' = IF r.ok THEN issued + 1 ELSE issued
            /\ last_fetch' = IF e.err = "none"
                             THEN [kind |-> "fetch", at |-> now, expires_in |-> r.expires_in.n]
                             ELSE last_fetch
            /\ Move(t, frame[t], Outcome(o.pc, o.result, <<resp>> \o o.sent), FALSE)
    /\ UNCHANGED <<now, threads>>

\* a service-location endpoint answers thread t; get_consumption_dataframe
\* goes on to get_service_location_info when it has rows to localize
ServiceResponse(t) ==
    /\ pc[t] = "service_wait"
    /\ \E ok \in BOOLEAN, empty \in BOOLEAN :
        LET resp == Entry("answer", Self, now, IF ok THEN "ok" ELSE "refused", <<>>)
        IN  IF ~ok
            THEN Move(t, frame[t], Outcome("idle", "HTTPError", <<resp>>), FALSE)
            ELSE IF frame[t].df = "data" /\ ~empty /\ frame[t].localize
            THEN LET fr == Frame("get_service_location_info", Number(0), Number(0),
                                 "info", TRUE)
                     o  == wrapper(fr, Self, now)
                 IN  Move(t, fr, Outcome(o.pc, o.result, <<resp>> \o o.sent), FALSE)
            ELSE Move(t, frame[t], Outcome("idle", "ok", <<resp>>), FALSE)
    /\ UNCHANGED <<tokenVars, now, issued, last_fetch, threads>>

\* a second passes
Tick ==
    /\ now < MaxClock
    /\ now' = now + 1
    /\ UNCHANGED <<tokenVars, issued, last_fetch, threads, pc, frame, log, result>>
    /\ UNCHANGED pureVars

IdleSession ==
    /\ StartState(Smappee_init)
    /\ now = 0 /\ issued = 0 /\ last_fetch = NoFetch /\ threads = {}
    /\ pc = <<>> /\ frame = <<>> /\ log = <<>> /\ result = <<>>

InitThreads(T) ==
    /\ threads = T
    /\ pc = [t \in T |-> "idle"]
    /\ frame = [t \in T |-> NoFrame]
    /\ log = [t \in T |-> <<>>]
    /\ result = [t \in T |-> "none"]

(***************************************************************************)
(* Specification Spec: one thread drives a Smappee session.                 *)
(***************************************************************************)
Init ==
    /\ StartState(Smappee_init)
    /\ now = 0
    /\ issued = 0
    /\ last_fetch = NoFetch
    /\ InitThreads({1})
    /\ IdleTime
    /\ IdleUrl
    /\ IdleLocal

Next ==
    \/ \E t \in threads : authenticate(t)
    \/ \E t \in threads : re_authenticate(t)
    \/ \E t \in threads : get_service_locations(t)
    \/ \E t \in threads : get_service_location_info(t)
    \/ \E t \in threads : get_consumption(t)
    \/ \E t \in threads : get_sensor_consumption(t)
    \/ \E t \in threads : get_events(t)
    \/ \E t \in threads : actuator_on(t)
    \/ \E t \in threads : actuator_off(t)
    \/ \E t \in threads : get_consumption_dataframe(t)
    \/ \E t \in threads : TokenResponse(t)
    \/ \E t \in threads : ServiceResponse(t)
    \/ Tick

(***************************************************************************)
(* Specification SpecThreads: two threads share one Smappee session that    *)
(* authenticate() has filled at time 0.  A thread runs up to its next       *)
(* blocking request in one step, so the guard's test and the sending of its *)
(* refresh request are one step, and so is the handling of a response; the  *)
(* threads interleave at the requests.                                      *)
(***************************************************************************)
InitShared ==
    /\ \E n \in 0..MaxExpiresIn :
          /\ StartState(TokenState(AccessToken(1), RefreshToken(1),
                                   _set_token_expiration_time(integer(n), 0)))
          /\ last_fetch = [kind |-> "fetch", at |-> 0, expires_in |-> n]
    /\ now = 0
    /\ issued = 1
    /\ InitThreads({1, 2})
    /\ IdleTime
    /\ IdleUrl
    /\ IdleLocal

NextShared ==
    \/ \E t \in threads : get_service_locations(t)
    \/ \E t \in threads : TokenResponse(t)
    \/ \E t \in threads : ServiceResponse(t)
    \/ Tick

(***************************************************************************)
(* Specification SpecSimple: one thread drives a SimpleSmappee session      *)
(* through its authenticated operations only.                               *)
(***************************************************************************)
InitSimple ==
    /\ StartState(SimpleSmappee_init)
    /\ now = 0
    /\ issued = 0
    /\ last_fetch = NoFetch
    /\ InitThreads({1})
    /\ IdleTime
    /\ IdleUrl
    /\ IdleLocal

NextSimple ==
    \/ \E t \in threads : get_service_locations(t)
    \/ \E t \in threads : get_service_location_info(t)
    \/ \E t \in threads : get_consumption(t)
    \/ \E t \in threads : get_sensor_consumption(t)
    \/ \E t \in threads : get_events(t)
    \/ \E t \in threads : actuator_on(t)
    \/ \E t \in threads : actuator_off(t)
    \/ \E t \in threads : get_consumption_dataframe(t)
    \/ \E t \in threads : ServiceResponse(t)
    \/ Tick

(***************************************************************************)
(* Specification SpecTime: _to_milliseconds applied to every input, then    *)
(* to its own output.                                                       *)
(***************************************************************************)
InitTime ==
    /\ time \in TimeInputs
    /\ ms = Unset
    /\ ms2 = Unset
    /\ IdleUrl
    /\ IdleLocal
    /\ IdleSession

ToMilliseconds ==
    /\ ms = Unset
    /\ ms' = _to_milliseconds(time)
    /\ UNCHANGED <<time, ms2, urlVars, localVars, sessVars>>

ToMillisecondsAgain ==
    /\ ms # Unset
    /\ ms.err = "none"
    /\ ms2 = Unset
    /\ ms2' = _to_milliseconds(ms.val)
    /\ UNCHANGED <<time, ms, urlVars, localVars, sessVars>>

NextTime ==
    \/ ToMilliseconds
    \/ ToMillisecondsAgain

(***************************************************************************)
(* Specification SpecUrl: urljoin on every list of parts, and base_url.     *)
(***************************************************************************)
InitUrl ==
    /\ parts \in PartLists
    /\ url = Unset
    /\ ip \in Ips
    /\ base_url = Unset
    /\ IdleTime
    /\ IdleLocal
    /\ IdleSession

UrlJoin ==
    /\ url = Unset
    /\ url' = Returned(urljoin(parts))
    /\ UNCHANGED <<parts, ip, base_url, timeVars, localVars, sessVars>>

BaseUrl ==
    /\ base_url = Unset
    /\ base_url' = Returned(LocalSmappee_base_url(ip))
    /\ UNCHANGED <<parts, url, ip, timeVars, localVars, sessVars>>

NextUrl ==
    \/ UrlJoin
    \/ BaseUrl

(***************************************************************************)
(* Specification SpecLocal: active_cosfi on every list of readings.         *)
(***************************************************************************)
InitLocal ==
    /\ inst \in ReadingLists
    /\ cosfi = Unset
    /\ IdleTime
    /\ IdleUrl
    /\ IdleSession

ActiveCosfi ==
    /\ cosfi = Unset
    /\ cosfi' = active_cosfi(inst)
    /\ UNCHANGED <<inst, timeVars, urlVars, sessVars>>

NextLocal == ActiveCosfi

vars == <<pureVars, sessVars>>

SpecTime  == InitTime  /\ [][NextTime]_vars
SpecUrl   == InitUrl   /\ [][NextUrl]_vars
SpecLocal == InitLocal /\ [][NextLocal]_vars
Spec       == Init       /\ [][Next]_vars
SpecSimple == InitSimple /\ [][NextSimple]_vars
SpecThreads == InitShared /\ [][NextShared]_vars

(***************************************************************************)
(* Claims about _to_milliseconds (SpecTime).                                *)
(***************************************************************************)
\* C5: a numeric epoch argument is returned unchanged, re-applying
\* _to_milliseconds to its own output gives the same output, and a naive
\* datetime converts to the same value as the same wall clock labelled UTC
\* (the wall clock is labelled, not shifted).
C5_NumericUnchanged_NaiveIsUtc ==
    /\ (ms # Unset /\ time.type = "number") => ms = Returned(time)
    /\ (ms2 # Unset) => ms2 = ms
    /\ (ms # Unset /\ time.type = "datetime" /\ ~time.aware) =>
          /\ ms = _to_milliseconds(Aware(time.v, 0))
          /\ ms.err = "none"
          /\ ms.val.type = "number"
          /\ Abs(ms.val.v * MicrosPerMilli - time.v) < MicrosPerMilli

C5_Witness ==
    /\ ms2 # Unset
    /\ time.type = "datetime"
    /\ ~time.aware
    /\ time.v = OffsetMicros

\* C6: for every date/time input the result is floor(epochSeconds * 1000)
\* of the UTC instant, also before the epoch and between two milliseconds.
C6_FloorOfEpochMillis ==
    (ms # Unset /\ time.type = "datetime") =>
        /\ ms.err = "none"
        /\ ms.val.v =
             FloorDiv(time.v - (IF time.aware THEN time.utcoffset ELSE 0), MicrosPerMilli)

(***************************************************************************)
(* Claims about urljoin (SpecUrl).                                          *)
(***************************************************************************)
DoubleSlashes(s) == {k \in 1..(Len(s) - 1) : s[k] = "/" /\ s[k + 1] = "/"}
IsMarker(p)      == Len(p) >= 2 /\ p[Len(p)] = "/" /\ p[Len(p) - 1] = "/"
NonSlash(p)      == {k \in 1..Len(p) : p[k] # "/"}
NoSlashPair(p, a, b) == \A k \in a..(b - 1) : ~(p[k] = "/" /\ p[k + 1] = "/")
Least(S)    == CHOOSE x \in S : \A y \in S : x <= y
Greatest(S) == CHOOSE x \in S : \A y \in S : x >= y
\* a protocol marker is a text followed by exactly "//"; any other part is a
\* text between any number of leading and trailing slashes; a text is not
\* empty, neither starts nor ends with a slash and holds no "//"
WellFormedPart(p) ==
    /\ NonSlash(p) # {}
    /\ IF IsMarker(p)
       THEN /\ Least(NonSlash(p)) = 1
            /\ Greatest(NonSlash(p)) = Len(p) - 2
            /\ NoSlashPair(p, 1, Len(p) - 2)
       ELSE NoSlashPair(p, Least(NonSlash(p)), Greatest(NonSlash(p)))
ExpectedBaseUrl(i) ==
    HttpMarker \o i \o <<"/">> \o Gateway \o <<"/">> \o ApiPublic

CosfiReadings(readings) ==
    {i \in 1..Len(readings) :
        LET k == readings[i].key
        IN  Len(k) >= 5 /\ [j \in 1..5 |-> k[Len(k) - 5 + j]] = Cosfi}
Decimal(s) ==
    CASE s = <<"0">> -> 0 [] s = <<"9", "5">> -> 95 [] s = <<"1", "0", "0">> -> 100
RECURSIVE Total(_, _)
Total(readings, S) ==
    IF S = {} THEN 0
    ELSE LET i == CHOOSE x \in S : TRUE
         IN  Decimal(readings[i].value) + Total(readings, S \ {i})

\* C9: active_cosfi returns the arithmetic mean of the values of the readings
\* whose key ends in 'Cosfi', and fails with ZeroDivisionError when there is
\* no such reading.
C9_MeanOrZeroDivision ==
    (cosfi # Unset) =>
        LET M == CosfiReadings(inst)
        IN  IF M = {}
            THEN cosfi.err = "ZeroDivisionError"
            ELSE /\ cosfi.err = "none"
                 /\ cosfi.den # 0
                 /\ cosfi.num * Cardinality(M) = Total(inst, M) * cosfi.den

C9_Witness ==
    /\ cosfi # Unset
    /\ cosfi.err = "ZeroDivisionError"
    /\ Len(inst) = 2

(***************************************************************************)
(* Claims about the session (Spec, SpecSimple).                             *)
(***************************************************************************)
Of(L, kind)  == {i \in 1..Len(L) : L[i].kind = kind}
\* the entries of the wrapped call whose guard is entry j: up to the next guard
CallOf(L, j) == {i \in (j + 1)..Len(L) : \A g \in Of(L, "guard") : g <= j \/ g > i}
\* the token state right after entry k
StateAfter(t, k) == IF k < Len(log[t]) THEN log[t][k + 1].state ELSE Self
FoundExpired(g) ==
    /\ g.state.refresh_token # None
    /\ g.state.token_expiration_time # None
    /\ g.state.token_expiration_time.n <= g.clock

\* C1: after a successful token fetch received at time t with expires_in = N,
\* an authenticated operation invoked before N seconds have elapsed sends no
\* token request, and one invoked once N seconds have elapsed sends exactly
\* one refresh request (grant_type=refresh_token, the stored refresh token),
\* before its own request.
C1_RefreshExactlyWhenExpired ==
    \A t \in threads : \A j \in Of(log[t], "guard") :
        LET L == log[t]
            g == L[j]
            tokens == CallOf(L, j) \cap Of(L, "token")
        IN  g.fetch.kind = "fetch" =>
              IF g.clock - g.fetch.at < g.fetch.expires_in
              THEN tokens = {}
              ELSE /\ tokens = {j + 1}
                   /\ L[j + 1].info = "refresh_token"
                   /\ L[j + 1].state.refresh_token = g.state.refresh_token
                   /\ g.state.refresh_token # None
                   /\ \A k \in CallOf(L, j) \cap Of(L, "service") : k > j + 1

C1_Witness ==
    \E t \in threads : \E j \in Of(log[t], "guard") :
        /\ log[t][j].fetch.kind = "fetch"
        /\ log[t][j].fetch.expires_in >= 1
        /\ log[t][j].clock - log[t][j].fetch.at = log[t][j].fetch.expires_in
        /\ CallOf(log[t], j) \cap Of(log[t], "token") = {j + 1}
        /\ CallOf(log[t], j) \cap Of(log[t], "service") # {}

\* C2: a SimpleSmappee session never sends a request to the token endpoint,
\* at any clock time: refresh_token stays unset and access_token stays the
\* injected token.
C2_SimpleNeverRefreshes ==
    /\ refresh_token = None
    /\ access_token = InjectedToken
    /\ issued = 0
    /\ \A t \in threads : pc[t] # "token_wait" /\ Of(log[t], "token") = {}

C2_Witness ==
    /\ now = MaxClock
    /\ \E t \in threads :
          /\ result[t] = "HTTPError"
          /\ \E k \in Of(log[t], "service") : log[t][k].clock = MaxClock

\* C3: after a token response was handled by authenticate or re_authenticate,
\* either the call succeeded and access_token, refresh_token and
\* token_expiration_time all come from that response, or it failed and all
\* three are as they were before the call.
C3_TokenStateReplacedAtomically ==
    \A t \in threads : \A k \in Of(log[t], "response") :
        IF log[t][k].info = "stored"
        THEN StateAfter(t, k) = log[t][k].state
        ELSE StateAfter(t, k) = log[t][k - 1].state

\* C4: every request to a service-location endpoint follows the guard of its
\* own call; its bearer header carries the access token held after the
\* guard ran; and when the guard found the held token expired while a
\* refresh token was held, that is the token of the refresh response, not the
\* expired one.
C4_RequestsFollowTheGuard ==
    \A t \in threads : \A k \in Of(log[t], "service") :
        LET L == log[t]
            guards == {j \in Of(L, "guard") : k \in CallOf(L, j)}
        IN  /\ guards # {}
            /\ \A j \in guards :
                 LET responses == {r \in CallOf(L, j) \cap Of(L, "response") : r < k}
                 IN  /\ CallOf(L, j) \cap Of(L, "service") = {k}
                     /\ IF FoundExpired(L[j])
                        THEN /\ responses = {j + 2}
                             /\ L[j + 2].info = "stored"
                             /\ k = j + 3
                             /\ L[k].state.access_token = L[j + 2].state.access_token
                             /\ L[k].state.access_token # L[j].state.access_token
                             /\ L[k].state = L[j + 2].state
                        ELSE /\ responses = {}
                             /\ k = j + 1
                             /\ L[k].state = L[j].state

C4_Witness ==
    \E t \in threads : \E j \in Of(log[t], "guard") :
        /\ frame[t].df = "info"
        /\ FoundExpired(log[t][j])
        /\ CallOf(log[t], j) \cap Of(log[t], "service") # {}

BadTimes(fr) ==
    /\ fr.op \in TimeOps
    /\ \/ fr.start.type \notin {"number", "datetime"}
       \/ fr.end.type \notin {"number", "datetime"}
GuardFailed(t) ==
    \/ \E k \in Of(log[t], "response") : log[t][k].info # "stored"
    \/ \E j \in Of(log[t], "guard") :
          /\ log[t][j].state.refresh_token # None
          /\ log[t][j].state.token_expiration_time = None

\* C7 as stated: an operation given a start or end that is neither a number
\* nor a date/time fails with NotImplementedError and sends no request to a
\* service-location endpoint (stated for the operations whose token
\* responses, if any, were well formed).
C7_BadTimeFailsNotImplemented ==
    \A t \in threads :
        (/\ BadTimes(frame[t])
         /\ \A k \in Of(log[t], "response") : log[t][k].info # "malformed"
         /\ \A j \in Of(log[t], "guard") :
                log[t][j].state.refresh_token # None =>
                    log[t][j].state.token_expiration_time # None) =>
            /\ pc[t] # "service_wait"
            /\ Of(log[t], "service") = {}
            /\ pc[t] = "idle" => result[t] = "NotImplementedError"

\* C7 amended: such an operation sends no request to a service-location
\* endpoint and fails; it fails with NotImplementedError unless its
\* authentication guard failed first, and then with the guard's error.
C7_BadTimeFailsBeforeRequest ==
    \A t \in threads : BadTimes(frame[t]) =>
        /\ pc[t] # "service_wait"
        /\ Of(log[t], "service") = {}
        /\ pc[t] = "idle" =>
             IF GuardFailed(t)
             THEN result[t] \in {"HTTPError", "KeyError", "TypeError"}
             ELSE result[t] = "NotImplementedError"

C7_Witness ==
    \E t \in threads :
        /\ BadTimes(frame[t])
        /\ pc[t] = "idle"
        /\ result[t] = "NotImplementedError"
        /\ frame[t].start.type = "datetime"
        /\ \E k \in Of(log[t], "response") : log[t][k].info = "stored"

\* C10: when the guard triggers a refresh and the token endpoint refuses it,
\* the operation fails with that error, sends no service-location request and
\* no second token request, and the token state is as the guard found it.
C10_RefusedRefreshFailsTheOperation ==
    \A t \in threads : \A j \in Of(log[t], "guard") :
        LET L == log[t]
        IN  (j + 2 <= Len(L) /\ L[j + 2].kind = "response" /\ L[j + 2].info = "refused") =>
              /\ pc[t] = "idle"
              /\ result[t] = "HTTPError"
              /\ Len(L) = j + 2
              /\ CallOf(L, j) \cap Of(L, "token") = {j + 1}
              /\ CallOf(L, j) \cap Of(L, "service") = {}
              /\ Self = L[j].state

C10_Witness ==
    \E t \in threads : \E j \in Of(log[t], "guard") :
        /\ j + 2 <= Len(log[t])
        /\ log[t][j + 2].kind = "response"
        /\ log[t][j + 2].info = "refused"
        /\ j > 1

\* C11: token_expiration_time is unset after construction and changes only
\* in the step that completes a successful token fetch, where it becomes the
\* clock at receipt plus the response's expires_in; every other step
\* (authenticated calls, refused or malformed token responses, service
\* answers, the clock) leaves it as it is.
C11_ExpiryChangesOnlyOnFetch ==
    /\ token_expiration_time = None
    /\ [][token_expiration_time' # token_expiration_time =>
            \E t \in threads :
                /\ pc[t] = "token_wait"
                /\ Len(log'[t]) > Len(log[t])
                /\ log'[t][Len(log[t]) + 1].kind = "response"
                /\ log'[t][Len(log[t]) + 1].info = "stored"
                /\ last_fetch'.kind = "fetch"
                /\ last_fetch'.at = now
                /\ token_expiration_time' = datetime(now + last_fetch'.expires_in)
                /\ now' = now]_vars

C11_Witness ==
    /\ token_expiration_time # None
    /\ last_fetch.expires_in >= 1
    /\ token_expiration_time.n = last_fetch.at + last_fetch.expires_in
    /\ now > last_fetch.at
    /\ \E t \in threads : \E k \in Of(log[t], "response") :
          /\ log[t][k].info = "malformed"
          /\ log[t][k].state.access_token # None
          /\ log[t][k].clock > last_fetch.at

(***************************************************************************)
(* Claims about two threads on one session (SpecThreads).                   *)
(***************************************************************************)
\* thread t enters an authenticated operation in this step
Enters(t) ==
    /\ pc[t] = "idle"
    /\ log'[t] # log[t]
    /\ log'[t][1].kind = "guard"

\* C12: nothing in the guard serializes the check and the refresh: a thread
\* that enters an authenticated operation and finds the token expired sends
\* its own refresh request with the stored refresh token also while another
\* thread's refresh request for that same expiry is still out.
C12_GuardNotSerialized ==
    [][\A t \in threads :
          (/\ Enters(t)
           /\ FoundExpired(log'[t][1])
           /\ \E u \in threads \ {t} : pc[u] = "token_wait") =>
              /\ pc'[t] = "token_wait"
              /\ Len(log'[t]) = 2
              /\ log'[t][2].kind = "token"
              /\ log'[t][2].info = "refresh_token"
              /\ log'[t][2].state.refresh_token = refresh_token]_vars

\* both threads observed the same expired token state and both sent a
\* refresh request with the same stored refresh token
C12_Witness ==
    /\ threads = {1, 2}
    /\ \A t \in threads :
          /\ pc[t] = "token_wait"
          /\ Len(log[t]) = 2
          /\ log[t][1].kind = "guard"
          /\ FoundExpired(log[t][1])
          /\ log[t][2].kind = "token"
          /\ log[t][2].info = "refresh_token"
    /\ log[1][1].state = log[2][1].state
    /\ log[1][2].state.refresh_token = log[2][2].state.refresh_token
    /\ log[1][2].state.refresh_token = refresh_token
    /\ log[1][1].fetch = log[2][1].fetch

(***************************************************************************)
(* Claim about the token state of a session (Spec).                         *)
(***************************************************************************)
\* C13: in every reachable state a set refresh_token comes with a set
\* token_expiration_time, so the guard never compares a missing expiry time
\* with the clock (which raises TypeError).
C13_RefreshTokenImpliesExpiry ==
    /\ refresh_token # None => token_expiration_time # None
    /\ \A t \in threads : result[t] # "TypeError"
====
